---------------------------- MODULE Spec2Model ----------------------------
(***************************************************************************)
(* A model of code/chatui/chat_client.py: ChatClient.search, predict,     *)
(* predict_with_system_prompt and upload_documents, together with the      *)
(* parts of the Python runtime and of the HTTP transport their behaviour   *)
(* depends on (generator suspension and finalization, the response         *)
(* context manager, the UTF-8 codec, the JSON decoder, file handles).      *)
(***************************************************************************)
EXTENDS Integers, Sequences, FiniteSets, TLC

(* ------------------------------ bounds -------------------------------- *)

\* Longest run of ASCII bytes in front of the interesting character of a body.
MaxPrefix == 16
\* Longest run of ASCII bytes behind it.
MaxSuffix == 1
\* Calls of predict / predict_with_system_prompt in one behaviour.
MaxCalls == 2
\* Longest list of paths handed to upload_documents.
MaxFiles == 3
\* Calls of search in one behaviour.
MaxSearches == 2

(* ------------------------- program constants -------------------------- *)

\* req.iter_content(16)
ChunkSize == 16
\* "num_docs": 4
NumDocs == 4
\* timeout=30 (search), timeout=10 (predict), timeout=120 (upload)
SearchTimeout == 30
PredictTimeout == 10
UploadTimeout == 120

(* ------------------------------ helpers ------------------------------- *)

Min(a, b) == IF a < b THEN a ELSE b

Take(s, n) == SubSeq(s, 1, n)

Drop(s, n) == SubSeq(s, n + 1, Len(s))

RECURSIVE Concat(_)
\* The fragments joined into one text.
Concat(ss) == IF ss = <<>> THEN <<>> ELSE Head(ss) \o Concat(Tail(ss))

(* --------------------------- the UTF-8 codec -------------------------- *)

IsCont(b) == b >= 128 /\ b <= 191

\* Number of bytes of the character a lead byte announces; 0 when the byte
\* cannot start a character.
LeadLen(b) ==
    IF b <= 127 THEN 1
    ELSE IF b >= 194 /\ b <= 223 THEN 2
    ELSE IF b >= 224 /\ b <= 239 THEN 3
    ELSE IF b >= 240 /\ b <= 244 THEN 4
    ELSE 0

\* The range the second byte of a character must lie in (the codec rejects
\* overlong forms, surrogates and code points above U+10FFFF there).
SecondOk(b1, b2) ==
    IF b1 = 224 THEN b2 >= 160 /\ b2 <= 191
    ELSE IF b1 = 237 THEN b2 >= 128 /\ b2 <= 159
    ELSE IF b1 = 240 THEN b2 >= 144 /\ b2 <= 191
    ELSE IF b1 = 244 THEN b2 >= 128 /\ b2 <= 143
    ELSE IsCont(b2)

\* Whether a well-formed character of n bytes starts at offset i of bs.
CharAt(bs, i, n) ==
    /\ n >= 1
    /\ i + n - 1 <= Len(bs)
    /\ n >= 2 => SecondOk(bs[i], bs[i + 1])
    /\ \A k \in 2..(n - 1) : IsCont(bs[i + k])

\* The code point of the n-byte character at offset i.
CodePoint(bs, i, n) ==
    IF n = 1 THEN bs[i]
    ELSE IF n = 2 THEN (bs[i] - 192) * 64 + (bs[i + 1] - 128)
    ELSE IF n = 3 THEN (bs[i] - 224) * 4096 + (bs[i + 1] - 128) * 64
                       + (bs[i + 2] - 128)
    ELSE (bs[i] - 240) * 262144 + (bs[i + 1] - 128) * 4096
         + (bs[i + 2] - 128) * 64 + (bs[i + 3] - 128)

RECURSIVE DecodeFrom(_, _, _)
DecodeFrom(bs, i, acc) ==
    IF i > Len(bs) THEN [ok |-> TRUE, text |-> acc]
    ELSE LET n == LeadLen(bs[i]) IN
         IF CharAt(bs, i, n)
         THEN DecodeFrom(bs, i + n, Append(acc, CodePoint(bs, i, n)))
         ELSE [ok |-> FALSE, text |-> acc]

\* bytes.decode("UTF-8") with the default errors="strict": the text (a
\* sequence of code points), or ok = FALSE for UnicodeDecodeError.
Utf8Decode(bs) == DecodeFrom(bs, 1, <<>>)

(* ------------------------------ inputs -------------------------------- *)

\* self.server_url
ServerUrl == "http://chain-server"

\* f"{self.server_url}<path>"
Url(path) == <<ServerUrl, path>>

\* The thirteen generation parameters; the two argument lists differ in
\* every parameter, and no two parameters of one list have the same value.
ArgSets ==
    { [query |-> "q1", mode |-> "local", local_model_id |-> "l1",
       nvcf_model_id |-> "c1", nim_model_ip |-> "ip1",
       nim_model_port |-> "port1", nim_model_id |-> "n1",
       temp_slider |-> 1, top_p_slider |-> 2, freq_pen_slider |-> 3,
       pres_pen_slider |-> 4, use_knowledge_base |-> TRUE,
       num_tokens |-> 64],
      [query |-> "q2", mode |-> "cloud", local_model_id |-> "l2",
       nvcf_model_id |-> "c2", nim_model_ip |-> "ip2",
       nim_model_port |-> "port2", nim_model_id |-> "n2",
       temp_slider |-> 5, top_p_slider |-> 6, freq_pen_slider |-> 7,
       pres_pen_slider |-> 8, use_knowledge_base |-> FALSE,
       num_tokens |-> 128] }

Systems == {"sysA", "sysB"}

\* k distinct ASCII letters, "A", "B", ...
AsciiRun(k) == [i \in 1..k |-> 64 + i]

\* m ASCII bytes "!".
Bangs(m) == [i \in 1..m |-> 33]

\* Nothing, U+00E9 (2 bytes), U+20AC (3 bytes), and the Latin-1 byte 0xE9,
\* which is not UTF-8.
Chars == {<<>>, <<195, 169>>, <<226, 130, 172>>, <<233>>}

\* The bodies of the runs that vary the request instead of the response:
\* empty, two ASCII bytes, U+1F600 (4 bytes).
ShortBodies == {<<>>, AsciiRun(2), <<240, 159, 152, 128>>}

\* The argument list and system text of the runs that vary the response.
StreamArgs == {a \in ArgSets : a.query = "q1"}

StreamSystems == {"sysA"}

\* The response bodies the server may stream.
Bodies ==
    { AsciiRun(k) \o c \o Bangs(m) :
        k \in 0..MaxPrefix, c \in Chars, m \in 0..MaxSuffix }

\* How the server transfers a body: whole (Content-Length), or as two
\* transfer chunks cut at offset cut.
Transfer(body, cut) ==
    IF body = <<>> THEN <<>>
    ELSE IF cut = 0 THEN <<body>>
    ELSE <<Take(body, cut), Drop(body, cut)>>

Cuts(body) == 0..(IF Len(body) = 0 THEN 0 ELSE Len(body) - 1)

(* ------------------------------- state -------------------------------- *)

VARIABLES
    \* predict, predict_with_system_prompt
    calls,      \* calls of predict / predict_with_system_prompt so far
    posted,     \* the POSTs to /generate issued so far, with the call of each
    genState,   \* the current generator: "none", "created", "suspended", "finished"
    genFn,      \* the function that made it
    genArgs,    \* its frame's parameters
    genSystem,  \* its frame's system parameter (predict_with_system_prompt)
    released,   \* the consumer has stopped consuming and dropped the generator
    conn,       \* its connection: "none", "open", "closed"
    chunks,     \* transfer chunks of the response body not yet read
    respBody,   \* the whole body the server streams on this connection
    received,   \* the byte windows iter_content has returned, in order
    yielded,    \* the fragments the consumer has been given, in order
    ending,     \* how the generator finished
    netOps,     \* network operations (POST, reads) of the current generator
    netFailed,  \* a network operation of the current generator has failed
    lastStep,   \* what the last step was: "call", "pull", "abandon", "close"
    \* search
    searches,   \* calls of search so far
    sPosted,    \* the POSTs to /documentSearch issued so far
    sState,     \* the last call: "idle", "returned", "raised"
    sPrompt,    \* its prompt
    sNet,       \* what the network did to its POST
    sSent,      \* the JSON value the server serialised whole as its body, if any
    sBody,      \* the body of its response
    sResult,    \* the value it returned, if it returned
    sError,     \* the exception it raised, if it raised
    sConn,      \* its response's connection
    \* upload_documents
    upState,    \* upload_documents: "idle", "running", "returned", "raised"
    upPaths,    \* file_paths
    upIdx,      \* iterations of the loop completed
    upFiles,    \* the handle the frame's local "files" holds (0: unbound)
    upOpened,   \* the handles open() has returned (the n-th is handle n)
    upOpen,     \* those of them that are open
    upPosted,   \* the POSTs to /uploadDocument attempted, in order
    upError     \* the exception it raised, if it raised

genVars == <<calls, posted, genState, genFn, genArgs, genSystem, released,
             conn, chunks, respBody, received, yielded, ending, netOps,
             netFailed, lastStep>>

NoArgs == [none |-> TRUE]

GenInit ==
    /\ calls = 0
    /\ posted = <<>>
    /\ genState = "none"
    /\ genFn = "none"
    /\ genArgs = NoArgs
    /\ genSystem = ""
    /\ released = FALSE
    /\ conn = "none"
    /\ chunks = <<>>
    /\ respBody = <<>>
    /\ received = <<>>
    /\ yielded = <<>>
    /\ ending = "none"
    /\ netOps = 0
    /\ netFailed = FALSE
    /\ lastStep = "none"

(* ------------------- predict / predict_with_system_prompt ------------- *)

\* The data dict of predict.
PredictData(a) ==
    [question |-> a.query,
     context |-> "",
     use_knowledge_base |-> a.use_knowledge_base,
     num_tokens |-> a.num_tokens,
     inference_mode |-> a.mode,
     local_model_id |-> a.local_model_id,
     nvcf_model_id |-> a.nvcf_model_id,
     nim_model_ip |-> a.nim_model_ip,
     nim_model_port |-> a.nim_model_port,
     nim_model_id |-> a.nim_model_id,
     temp |-> a.temp_slider,
     top_p |-> a.top_p_slider,
     freq_pen |-> a.freq_pen_slider,
     pres_pen |-> a.pres_pen_slider]

\* The data dict of predict_with_system_prompt with two sliders exchanged.
PredictWithSystemPromptDataSwapped(system, a) ==
    [system |-> system,
     question |-> a.query,
     context |-> "",
     use_knowledge_base |-> a.use_knowledge_base,
     num_tokens |-> a.num_tokens,
     inference_mode |-> a.mode,
     local_model_id |-> a.local_model_id,
     nvcf_model_id |-> a.nvcf_model_id,
     nim_model_ip |-> a.nim_model_ip,
     nim_model_port |-> a.nim_model_port,
     nim_model_id |-> a.nim_model_id,
     temp |-> a.top_p_slider,
     top_p |-> a.temp_slider,
     freq_pen |-> a.freq_pen_slider,
     pres_pen |-> a.pres_pen_slider]

\* The data dict of predict_with_system_prompt.
PredictWithSystemPromptData(system, a) ==
    [system |-> system,
     question |-> a.query,
     context |-> "",
     use_knowledge_base |-> a.use_knowledge_base,
     num_tokens |-> a.num_tokens,
     inference_mode |-> a.mode,
     local_model_id |-> a.local_model_id,
     nvcf_model_id |-> a.nvcf_model_id,
     nim_model_ip |-> a.nim_model_ip,
     nim_model_port |-> a.nim_model_port,
     nim_model_id |-> a.nim_model_id,
     temp |-> a.temp_slider,
     top_p |-> a.top_p_slider,
     freq_pen |-> a.freq_pen_slider,
     pres_pen |-> a.pres_pen_slider]

\* requests.post(url, stream=True, json=data, timeout=10) of either function.
GenerateRequest(fn, system, a) ==
    [url |-> Url("/generate"),
     json |-> IF fn = "predict" THEN PredictData(a)
              ELSE PredictWithSystemPromptData(system, a),
     stream |-> TRUE,
     timeout |-> PredictTimeout]

\* The response is not used as a context manager: nothing closes it.
WithExitLeak(c) == c

\* Leaving "with requests.post(...) as req:" by any way (the loop's end, an
\* exception, GeneratorExit) runs req.close().
WithExit(c) == "closed"

\* One piece of req.iter_content(16): the next bytes of the transfer chunk
\* being read, ChunkSize of them at most.
Window(cs) == Take(Head(cs), Min(ChunkSize, Len(Head(cs))))

\* The transfer chunks left once that piece is read.
AfterWindow(cs) ==
    IF Len(Head(cs)) <= ChunkSize THEN Tail(cs)
    ELSE <<Drop(Head(cs), ChunkSize)>> \o Tail(cs)

\* chunk.decode("UTF-8", errors="ignore"): the bytes that do not decode are
\* dropped.
DecodeIgnore(chunk) == [ok |-> TRUE, text |-> Utf8Decode(chunk).text]

\* chunk.decode("UTF-8")
Decode(chunk) == Utf8Decode(chunk)

\* A read of the body fails and the loop is never resumed: the exception
\* the read raises is caught nowhere, ends the iteration as if the body had
\* ended, and is lost.
ReadFailsSwallowed(cs, ops) ==
    /\ netOps' = ops + 1
    /\ netFailed' = TRUE
    /\ conn' = "closed"
    /\ genState' = "finished"
    /\ ending' = "exhausted"
    /\ chunks' = cs
    /\ UNCHANGED <<received, yielded>>

\* A read of the body fails: iter_content raises, nothing in the generator
\* catches it, so it leaves the with block and the generator, to the
\* consumer's next().
ReadFails(cs, ops) ==
    /\ netOps' = ops + 1
    /\ netFailed' = TRUE
    /\ conn' = WithExit("open")
    /\ genState' = "finished"
    /\ ending' = "ConnectionError"
    /\ chunks' = cs
    /\ UNCHANGED <<received, yielded>>

\* The generator running from "for chunk in req.iter_content(16)" to its next
\* yield or to its end, on an open connection with transfer chunks cs unread
\* and ops network operations done: the read fails, or finds the body at its
\* end, or returns a window, which decodes or does not.
Resume(cs, ops, readOk) ==
    IF ~readOk THEN ReadFails(cs, ops)
    ELSE /\ netOps' = ops + 1
         /\ netFailed' = FALSE
         /\ IF cs = <<>>
            THEN /\ conn' = WithExit("open")
                 /\ genState' = "finished"
                 /\ ending' = "exhausted"
                 /\ chunks' = cs
                 /\ UNCHANGED <<received, yielded>>
            ELSE LET w == Window(cs)
                     d == Decode(w)
                 IN /\ chunks' = AfterWindow(cs)
                    /\ received' = Append(received, w)
                    /\ IF d.ok
                       THEN /\ yielded' = Append(yielded, d.text)
                            /\ genState' = "suspended"
                            /\ conn' = "open"
                            /\ UNCHANGED ending
                       ELSE /\ conn' = WithExit("open")
                            /\ genState' = "finished"
                            /\ ending' = "UnicodeDecodeError"
                            /\ UNCHANGED yielded

\* The call runs the function's body up to the POST at once, as a plain
\* function would.
CallEager(fn, system, a) ==
    /\ calls' = calls + 1
    /\ genState' = "created"
    /\ genFn' = fn
    /\ genArgs' = a
    /\ genSystem' = system
    /\ released' = FALSE
    /\ conn' = "open"
    /\ chunks' = <<>>
    /\ respBody' = <<>>
    /\ received' = <<>>
    /\ yielded' = <<>>
    /\ ending' = "none"
    /\ netOps' = 1
    /\ netFailed' = FALSE
    /\ lastStep' = "call"
    /\ posted' = Append(posted, [call |-> calls + 1, fn |-> fn, args |-> a,
                                 system |-> system,
                                 req |-> GenerateRequest(fn, system, a)])

\* predict(...) / predict_with_system_prompt(...): calling a generator
\* function binds the parameters in a new frame and runs none of its body.
Call(fn, system, a) ==
    /\ calls' = calls + 1
    /\ genState' = "created"
    /\ genFn' = fn
    /\ genArgs' = a
    /\ genSystem' = system
    /\ released' = FALSE
    /\ conn' = "none"
    /\ chunks' = <<>>
    /\ respBody' = <<>>
    /\ received' = <<>>
    /\ yielded' = <<>>
    /\ ending' = "none"
    /\ netOps' = 0
    /\ netFailed' = FALSE
    /\ lastStep' = "call"
    /\ UNCHANGED posted

\* A call of either function; predict has no system parameter. (The model
\* follows one generator at a time: the next call is made once the previous
\* generator has finished.)
Calls(argSets, systems) ==
    /\ calls < MaxCalls
    /\ genState \in {"none", "finished"}
    /\ \/ \E a \in argSets : Call("predict", "", a)
       \/ \E a \in argSets, system \in systems :
             Call("predict_with_system_prompt", system, a)

\* The first next(): the body runs from its first line: the data dict, the
\* POST (which raises, or returns the response with its body unread), then
\* the loop up to the first yield.
PullFirst(postOutcome, body, cut, readOk) ==
    /\ posted' = Append(posted, [call |-> calls, fn |-> genFn,
                                 args |-> genArgs, system |-> genSystem,
                                 req |-> GenerateRequest(genFn, genSystem,
                                                         genArgs)])
    /\ IF postOutcome # "ok"
       THEN /\ genState' = "finished"
            /\ ending' = postOutcome
            /\ netOps' = netOps + 1
            /\ netFailed' = TRUE
            /\ UNCHANGED <<conn, chunks, respBody, received, yielded>>
       ELSE /\ respBody' = body
            /\ Resume(Transfer(body, cut), netOps + 1, readOk)
    /\ lastStep' = "pull"
    /\ UNCHANGED <<calls, genFn, genArgs, genSystem, released>>

\* A later next(): the loop resumes behind the yield.
PullNext(readOk) ==
    /\ Resume(chunks, netOps, readOk)
    /\ lastStep' = "pull"
    /\ UNCHANGED <<calls, posted, genFn, genArgs, genSystem, released,
                   respBody>>

\* next() on a finished generator raises StopIteration and runs nothing.
PullFinished ==
    /\ lastStep' = "pull"
    /\ UNCHANGED <<calls, posted, genState, genFn, genArgs, genSystem,
                   released, conn, chunks, respBody, received, yielded,
                   ending, netOps, netFailed>>

\* The consumer's next() on a generator that has not started, the server
\* answering with one of bodies.
PullCreated(bodies) ==
    /\ ~released
    /\ genState = "created"
    /\ \E po \in {"ok", "ConnectionError", "Timeout"}, body \in bodies,
          readOk \in BOOLEAN :
          \E cut \in Cuts(body) : PullFirst(po, body, cut, readOk)

\* The consumer's next() on a suspended generator.
PullSuspended ==
    /\ ~released
    /\ genState = "suspended"
    /\ \E readOk \in BOOLEAN : PullNext(readOk)

\* The consumer's next() on a finished generator.
PullEnded ==
    /\ ~released
    /\ genState = "finished"
    /\ PullFinished

\* The consumer stops consuming before the sequence has ended, and drops the
\* generator.
Abandon ==
    /\ genState \in {"created", "suspended"}
    /\ ~released
    /\ released' = TRUE
    /\ lastStep' = "abandon"
    /\ UNCHANGED <<calls, posted, genState, genFn, genArgs, genSystem,
                   conn, chunks, respBody, received, yielded, ending,
                   netOps, netFailed>>

\* The runtime finalizes the dropped generator with close(): a generator
\* that never started just finishes; a suspended one gets GeneratorExit at
\* its yield, which leaves the with block.
GeneratorClose ==
    /\ released
    /\ genState \in {"created", "suspended"}
    /\ genState' = "finished"
    /\ ending' = "closed"
    /\ conn' = IF genState = "suspended" THEN WithExit(conn) ELSE conn
    /\ lastStep' = "close"
    /\ UNCHANGED <<calls, posted, genFn, genArgs, genSystem, released,
                   chunks, respBody, received, yielded, netOps, netFailed>>

(* ------------------------------- JSON --------------------------------- *)

\* JSON values: strings, numbers, arrays, and objects as their members in
\* order.
Str(x) == [t |-> "str", v |-> x]

Num(n) == [t |-> "num", v |-> n]

Arr(items) == [t |-> "arr", v |-> items]

Obj(members) == [t |-> "obj", v |-> members]

\* The tokens of a JSON text.
P(c) == [k |-> "punct", s |-> c]

StrTok(x) == [k |-> "str", s |-> x]

NumTok(n) == [k |-> "num", n |-> n]

IsP(toks, i, c) == i <= Len(toks) /\ toks[i].k = "punct" /\ toks[i].s = c

RECURSIVE JsonEncode(_)
RECURSIVE EncodeItems(_)
RECURSIVE EncodeMembers(_)
\* The server's serialisation of a value.
JsonEncode(val) ==
    CASE val.t = "str" -> <<StrTok(val.v)>>
      [] val.t = "num" -> <<NumTok(val.v)>>
      [] val.t = "arr" -> <<P("[")>> \o EncodeItems(val.v) \o <<P("]")>>
      [] val.t = "obj" -> <<P("{")>> \o EncodeMembers(val.v) \o <<P("}")>>

EncodeItems(items) ==
    IF items = <<>> THEN <<>>
    ELSE JsonEncode(Head(items))
         \o (IF Tail(items) = <<>> THEN <<>>
             ELSE <<P(",")>> \o EncodeItems(Tail(items)))

EncodeMembers(members) ==
    IF members = <<>> THEN <<>>
    ELSE <<StrTok(Head(members)[1]), P(":")>> \o JsonEncode(Head(members)[2])
         \o (IF Tail(members) = <<>> THEN <<>>
             ELSE <<P(",")>> \o EncodeMembers(Tail(members)))

ParseFail == [ok |-> FALSE]

RECURSIVE ParseValue(_, _)
RECURSIVE ParseItems(_, _, _)
RECURSIVE ParseMembers(_, _, _)
\* The value that starts at token i, and the place behind it.
ParseValue(toks, i) ==
    IF i > Len(toks) THEN ParseFail
    ELSE IF toks[i].k = "str"
    THEN [ok |-> TRUE, val |-> Str(toks[i].s), next |-> i + 1]
    ELSE IF toks[i].k = "num"
    THEN [ok |-> TRUE, val |-> Num(toks[i].n), next |-> i + 1]
    ELSE IF IsP(toks, i, "[")
    THEN IF IsP(toks, i + 1, "]")
         THEN [ok |-> TRUE, val |-> Arr(<<>>), next |-> i + 2]
         ELSE ParseItems(toks, i + 1, <<>>)
    ELSE IF IsP(toks, i, "{")
    THEN IF IsP(toks, i + 1, "}")
         THEN [ok |-> TRUE, val |-> Obj(<<>>), next |-> i + 2]
         ELSE ParseMembers(toks, i + 1, <<>>)
    ELSE ParseFail

ParseItems(toks, i, acc) ==
    LET r == ParseValue(toks, i) IN
    IF ~r.ok THEN ParseFail
    ELSE IF IsP(toks, r.next, ",")
    THEN ParseItems(toks, r.next + 1, Append(acc, r.val))
    ELSE IF IsP(toks, r.next, "]")
    THEN [ok |-> TRUE, val |-> Arr(Append(acc, r.val)), next |-> r.next + 1]
    ELSE ParseFail

ParseMembers(toks, i, acc) ==
    IF ~(i + 1 <= Len(toks) /\ toks[i].k = "str" /\ IsP(toks, i + 1, ":"))
    THEN ParseFail
    ELSE LET r == ParseValue(toks, i + 2) IN
         IF ~r.ok THEN ParseFail
         ELSE IF IsP(toks, r.next, ",")
         THEN ParseMembers(toks, r.next + 1,
                           Append(acc, <<toks[i].s, r.val>>))
         ELSE IF IsP(toks, r.next, "}")
         THEN [ok |-> TRUE,
               val |-> Obj(Append(acc, <<toks[i].s, r.val>>)),
               next |-> r.next + 1]
         ELSE ParseFail

\* A decoder that answers a body it cannot decode with the empty list.
JsonDecodeLenient(toks) ==
    LET r == ParseValue(toks, 1) IN
    IF r.ok /\ r.next = Len(toks) + 1 THEN [ok |-> TRUE, val |-> r.val]
    ELSE [ok |-> TRUE, val |-> Arr(<<>>)]

\* req.json(): the value of a body that is one JSON text, or ok = FALSE for
\* JSONDecodeError.
JsonDecode(toks) ==
    LET r == ParseValue(toks, 1) IN
    IF r.ok /\ r.next = Len(toks) + 1 THEN [ok |-> TRUE, val |-> r.val]
    ELSE ParseFail

(* ------------------------------ search -------------------------------- *)

Prompts == {"x", "what is rag"}

Doc(text, score) == Obj(<< <<"text", Str(text)>>, <<"score", Num(score)>> >>)

\* What the server may answer a search with: no, one or two documents in
\* either order, or an error object.
SearchValues ==
    { Arr(<<>>),
      Arr(<<Doc("a", 9)>>),
      Arr(<<Doc("a", 9), Doc("b", 7)>>),
      Arr(<<Doc("b", 7), Doc("a", 9)>>),
      Obj(<< <<"detail", Str("error")>> >>) }

\* Bodies that are not JSON: an HTML error page, and every JSON text cut
\* short (the empty body among them).
Truncations(val) ==
    { Take(JsonEncode(val), n) : n \in 0..(Len(JsonEncode(val)) - 1) }

BrokenBodies ==
    { <<[k |-> "other"]>> }
    \cup Truncations(Arr(<<Doc("a", 9), Doc("b", 7)>>))
    \cup Truncations(Obj(<< <<"detail", Str("error")>> >>))

searchVars == <<searches, sPosted, sState, sPrompt, sNet, sSent, sBody,
                sResult, sError, sConn>>

SearchInit ==
    /\ searches = 0
    /\ sPosted = <<>>
    /\ sState = "idle"
    /\ sPrompt = ""
    /\ sNet = "none"
    /\ sSent = <<>>
    /\ sBody = <<>>
    /\ sResult = <<>>
    /\ sError = "none"
    /\ sConn = "none"

\* The data dict with the prompt under another field name.
SearchDataRenamed(prompt) == [query |-> prompt, num_docs |-> NumDocs]

\* data = {"content": prompt, "num_docs": 4}
SearchData(prompt) == [content |-> prompt, num_docs |-> NumDocs]

\* requests.post(url, headers=headers, json=data, timeout=30)
SearchRequest(prompt) ==
    [url |-> Url("/documentSearch"),
     headers |-> [accept |-> "application/json",
                  content_type |-> "application/json"],
     json |-> SearchData(prompt),
     timeout |-> SearchTimeout]

\* typing.cast(..., response): the value itself.
Cast(response) == response

\* search(prompt), whole: the POST raises, or its response is decoded inside
\* the with block, which raises or returns the value.
Search(prompt, net, sent, body) ==
    /\ searches' = searches + 1
    /\ sPrompt' = prompt
    /\ sPosted' = Append(sPosted, SearchRequest(prompt))
    /\ sNet' = net
    /\ IF net # "ok"
       THEN /\ sState' = "raised"
            /\ sError' = net
            /\ sResult' = <<>>
            /\ sSent' = <<>>
            /\ sBody' = <<>>
            /\ sConn' = "none"
       ELSE LET response == JsonDecode(body) IN
            /\ sSent' = sent
            /\ sBody' = body
            /\ sConn' = "closed"
            /\ IF response.ok
               THEN /\ sState' = "returned"
                    /\ sResult' = <<Cast(response.val)>>
                    /\ sError' = "none"
               ELSE /\ sState' = "raised"
                    /\ sResult' = <<>>
                    /\ sError' = "JSONDecodeError"

\* A call whose POST the network fails.
SearchUnreachable ==
    /\ searches < MaxSearches
    /\ \E prompt \in Prompts, net \in {"ConnectionError", "Timeout"} :
          Search(prompt, net, <<>>, <<>>)

\* A call the server answers with a JSON text.
SearchAnswered ==
    /\ searches < MaxSearches
    /\ \E prompt \in Prompts, val \in SearchValues :
          Search(prompt, "ok", <<val>>, JsonEncode(val))

\* A call the server answers with something else.
SearchGarbled ==
    /\ searches < MaxSearches
    /\ \E prompt \in Prompts, body \in BrokenBodies :
          Search(prompt, "ok", <<>>, body)

(* -------------------------- upload_documents -------------------------- *)

Paths == {"a.txt", "b.pdf", "c"}

\* mimetypes.guess_type(fpath)[0]: by the extension; None without one.
GuessType(fpath) ==
    CASE fpath = "a.txt" -> "text/plain"
      [] fpath = "b.pdf" -> "application/pdf"
      [] OTHER -> "None"

RECURSIVE SeqsUpTo(_, _)
\* The lists over S of at most n elements.
SeqsUpTo(S, n) ==
    IF n = 0 THEN {<<>>}
    ELSE LET shorter == SeqsUpTo(S, n - 1) IN
         shorter \cup {Append(q, x) : q \in shorter, x \in S}

PathLists == SeqsUpTo(Paths, MaxFiles)

uploadVars == <<upState, upPaths, upIdx, upFiles, upOpened, upOpen,
                upPosted, upError>>

UploadInit ==
    /\ upState = "idle"
    /\ upPaths = <<>>
    /\ upIdx = 0
    /\ upFiles = 0
    /\ upOpened = 0
    /\ upOpen = {}
    /\ upPosted = <<>>
    /\ upError = "none"

\* upload_documents(file_paths) is entered.
UploadCall(paths) ==
    /\ upState = "idle"
    /\ upState' = "running"
    /\ upPaths' = paths
    /\ UNCHANGED <<upIdx, upFiles, upOpened, upOpen, upPosted, upError>>

\* requests.post(url, headers=headers, files=files, verify=False, timeout=120)
UploadRequest(fpath, handle) ==
    [url |-> Url("/uploadDocument"),
     headers |-> [accept |-> "application/json"],
     files |-> [file |-> <<fpath, handle, GuessType(fpath)>>],
     verify |-> FALSE,
     timeout |-> UploadTimeout]

\* One iteration of "for fpath in file_paths": open() raises, or returns a
\* handle that "files" is bound to; then the POST raises, or returns a
\* response of any status, which is dropped. No exception is caught, and
\* nothing closes the handle.
UploadFile(fate) ==
    /\ upState = "running"
    /\ upIdx < Len(upPaths)
    /\ IF fate = "FileNotFoundError"
       THEN /\ upState' = "raised"
            /\ upError' = fate
            /\ UNCHANGED <<upIdx, upFiles, upOpened, upOpen, upPosted>>
       ELSE /\ upOpened' = upOpened + 1
            /\ upOpen' = upOpen \cup {upOpened + 1}
            /\ upFiles' = upOpened + 1
            /\ upPosted' = Append(upPosted,
                                  UploadRequest(upPaths[upIdx + 1],
                                                upOpened + 1))
            /\ IF fate \in {"ConnectionError", "Timeout"}
               THEN /\ upState' = "raised"
                    /\ upError' = fate
                    /\ UNCHANGED upIdx
               ELSE /\ upIdx' = upIdx + 1
                    /\ UNCHANGED <<upState, upError>>
    /\ UNCHANGED upPaths

\* The loop is exhausted: the function returns None and its frame goes.
UploadReturn ==
    /\ upState = "running"
    /\ upIdx = Len(upPaths)
    /\ upState' = "returned"
    /\ upFiles' = 0
    /\ UNCHANGED <<upPaths, upIdx, upOpened, upOpen, upPosted, upError>>

\* The runtime closes a handle nothing refers to any more. The handle in
\* "files" is referred to while the frame lives, and the frame of a call that
\* raised lives on in the exception's traceback.
CollectHandle ==
    \E h \in upOpen :
       /\ h # upFiles
       /\ upOpen' = upOpen \ {h}
       /\ UNCHANGED <<upState, upPaths, upIdx, upFiles, upOpened, upPosted,
                      upError>>

Fates == {"ok", "http_error", "ConnectionError", "Timeout", "FileNotFoundError"}

(* --------------------------- specifications --------------------------- *)

vars == <<genVars, searchVars, uploadVars>>

Init == GenInit /\ SearchInit /\ UploadInit

GenNext(argSets, systems, bodies) ==
    \/ Calls(argSets, systems) /\ UNCHANGED <<searchVars, uploadVars>>
    \/ PullCreated(bodies) /\ UNCHANGED <<searchVars, uploadVars>>
    \/ PullSuspended /\ UNCHANGED <<searchVars, uploadVars>>
    \/ PullEnded /\ UNCHANGED <<searchVars, uploadVars>>
    \/ Abandon /\ UNCHANGED <<searchVars, uploadVars>>
    \/ GeneratorClose /\ UNCHANGED <<searchVars, uploadVars>>

\* The generation calls, over the response bodies and the ways to transfer
\* and to consume them.
StreamNext == GenNext(StreamArgs, StreamSystems, Bodies)

StreamSpec == Init /\ [][StreamNext]_vars

\* The runtime finalizes every dropped generator.
StreamLiveSpec == StreamSpec /\ WF_genVars(GeneratorClose)

\* The generation calls, over the argument lists and system texts.
RequestNext == GenNext(ArgSets, Systems, ShortBodies)

RequestSpec == Init /\ [][RequestNext]_vars

SearchNext ==
    \/ SearchUnreachable /\ UNCHANGED <<genVars, uploadVars>>
    \/ SearchAnswered /\ UNCHANGED <<genVars, uploadVars>>
    \/ SearchGarbled /\ UNCHANGED <<genVars, uploadVars>>

SearchSpec == Init /\ [][SearchNext]_vars

UploadNext ==
    \/ (\E paths \in PathLists : UploadCall(paths))
          /\ UNCHANGED <<genVars, searchVars>>
    \/ (\E fate \in Fates : UploadFile(fate))
          /\ UNCHANGED <<genVars, searchVars>>
    \/ UploadReturn /\ UNCHANGED <<genVars, searchVars>>
    \/ CollectHandle /\ UNCHANGED <<genVars, searchVars>>

UploadSpec == Init /\ [][UploadNext]_vars

(* ------------------------------ properties ---------------------------- *)

\* The POSTs the current generator has issued.
ThisCallPosts == {i \in DOMAIN posted : posted[i].call = calls}

\* The bytes received so far.
ReceivedBytes == Concat(received)

\* Body d2 has the fields of body d1 and the field system, with equal values.
DiffersBySystem(d1, d2) ==
    /\ "system" \notin DOMAIN d1
    /\ DOMAIN d2 = DOMAIN d1 \cup {"system"}
    /\ \A f \in DOMAIN d1 : d1[f] = d2[f]

\* C1: when upload_documents has returned or raised, it has attempted one
\* POST for each path of the list, whatever failed.
C1_OnePostPerPath ==
    upState \in {"returned", "raised"} => Len(upPosted) = Len(upPaths)

\* C2: when upload_documents has returned or raised, none of the handles it
\* opened is still open.
C2_NoHandleLeftOpen ==
    upState \in {"returned", "raised"} => upOpen = {}

\* C3: a valid UTF-8 body consumed to the end of the sequence, with no
\* network failure, has been yielded whole: the sequence ended by exhaustion
\* and the fragments concatenate to the decoded body.
C3_FragmentsConcatenateToBody ==
    (/\ genState = "finished"
     /\ ~released
     /\ ending \in {"exhausted", "UnicodeDecodeError"}
     /\ Utf8Decode(respBody).ok)
    => /\ ending = "exhausted"
       /\ Concat(yielded) = Utf8Decode(respBody).text

\* C4: every POST of either function goes to <server_url>/generate with
\* context "", and the bodies the two functions post for the same thirteen
\* parameters differ by the field system alone, which holds the system text.
C4_BodiesDifferBySystemOnly ==
    /\ \A i \in DOMAIN posted :
          /\ posted[i].req.url = <<ServerUrl, "/generate">>
          /\ posted[i].req.json.context = ""
    /\ \A i, j \in DOMAIN posted :
          (/\ posted[i].fn = "predict"
           /\ posted[j].fn = "predict_with_system_prompt"
           /\ posted[i].args = posted[j].args)
          => /\ DiffersBySystem(posted[i].req.json, posted[j].req.json)
             /\ posted[j].req.json.system = posted[j].system

C4_Witness ==
    \E i, j \in DOMAIN posted :
       /\ posted[i].fn = "predict"
       /\ posted[j].fn = "predict_with_system_prompt"
       /\ posted[i].args = posted[j].args
       /\ posted[j].system = "sysB"

\* C5: each call of search has sent one POST, to <server_url>/documentSearch
\* with body {content: prompt, num_docs: 4}, and a call the server answered
\* with a JSON text has returned the value the server serialised.
C5_SearchReturnsDecodedBody ==
    /\ Len(sPosted) = searches
    /\ searches > 0 =>
          /\ sPosted[searches].url = <<ServerUrl, "/documentSearch">>
          /\ sPosted[searches].json = [content |-> sPrompt, num_docs |-> 4]
    /\ (sNet = "ok" /\ sSent # <<>>) =>
          /\ sState = "returned"
          /\ sResult = sSent

C5_Witness ==
    /\ sState = "returned"
    /\ sPrompt = "x"
    /\ sResult = <<Arr(<<Doc("b", 7), Doc("a", 9)>>)>>

\* C6: once the consumer has dropped the generator, the generator finishes,
\* and a dropped generator that has finished has no open connection.
C6_AbandonClosesConnection ==
    /\ [](released /\ genState = "finished" => conn # "open")
    /\ released ~> (genState = "finished" /\ conn # "open")

C6_Witness ==
    /\ released
    /\ genFn = "predict_with_system_prompt"
    /\ ending = "closed"
    /\ conn = "closed"
    /\ yielded # <<>>
    /\ chunks # <<>>

\* C7: a generator that has not been pulled has done no network operation
\* and has no connection; a network operation or a POST happens only in a
\* pull step; a call issues at most one POST, and exactly one once pulled;
\* a finished or dropped generator yields nothing more and does no network
\* operation, so the POSTs never outnumber the calls.
C7_PullDrivenOneShot ==
    /\ [](genState = "created" =>
            netOps = 0 /\ conn = "none" /\ ThisCallPosts = {})
    /\ [](genState \in {"suspended", "finished"} /\ ending # "closed" =>
            Cardinality(ThisCallPosts) = 1)
    /\ [](Cardinality(ThisCallPosts) <= 1 /\ Len(posted) <= calls)
    /\ [][netOps' > netOps \/ posted' # posted => lastStep' = "pull"]_vars
    /\ [][(genState = "finished" \/ released) /\ calls' = calls =>
            yielded' = yielded /\ posted' = posted /\ netOps' = netOps
            /\ received' = received]_vars

C7_Witness ==
    /\ calls = 2
    /\ Len(posted) = 2
    /\ genState = "finished"
    /\ ending = "exhausted"
    /\ Len(yielded) = 2

\* C9: a network failure is raised as ConnectionError (or Timeout, at the
\* POST) in the pull step in which it happens; that step yields nothing, the
\* fragments yielded before stay as they were, one per window received, the
\* generator is finished with its connection closed, and the call has issued
\* one POST; afterwards nothing is yielded and nothing is posted.
C9_FailureRaisedAtPull ==
    /\ [](netFailed =>
            /\ ending \in {"ConnectionError", "Timeout"}
            /\ genState = "finished"
            /\ conn # "open"
            /\ Cardinality(ThisCallPosts) = 1
            /\ Len(yielded) = Len(received)
            /\ \A i \in DOMAIN yielded :
                  yielded[i] = Utf8Decode(received[i]).text)
    /\ [][netFailed' /\ ~netFailed =>
            lastStep' = "pull" /\ yielded' = yielded]_vars
    /\ [][netFailed /\ calls' = calls =>
            yielded' = yielded /\ posted' = posted /\ conn' = conn]_vars

C9_Witness ==
    /\ netFailed
    /\ ending = "ConnectionError"
    /\ conn = "closed"
    /\ yielded # <<>>
    /\ chunks # <<>>

\* The bytes received end inside a character of a valid UTF-8 body: the
\* byte behind them is a continuation byte.
Straddles ==
    /\ received # <<>>
    /\ Len(ReceivedBytes) < Len(respBody)
    /\ IsCont(respBody[Len(ReceivedBytes) + 1])
    /\ Utf8Decode(respBody).ok

\* C10: the windows are consecutive pieces of the body of 1 to 16 bytes;
\* each fragment is the decoding of its own window alone; a window that does
\* not decode alone yields nothing and ends the sequence with a decode
\* failure, the fragments of the windows before it delivered; and that is
\* what happens when a window ends inside a character.
C10_WindowsDecodedAlone ==
    /\ \A i \in DOMAIN received :
          Len(received[i]) >= 1 /\ Len(received[i]) <= 16
    /\ ReceivedBytes = Take(respBody, Len(ReceivedBytes))
    /\ \A i \in DOMAIN yielded :
          /\ i <= Len(received)
          /\ Utf8Decode(received[i]).ok
          /\ yielded[i] = Utf8Decode(received[i]).text
    /\ IF ending = "UnicodeDecodeError"
       THEN /\ Len(received) = Len(yielded) + 1
            /\ ~Utf8Decode(received[Len(received)]).ok
            /\ genState = "finished"
            /\ conn = "closed"
       ELSE Len(received) = Len(yielded)
    /\ Straddles => ending = "UnicodeDecodeError"

C10_Witness ==
    /\ Straddles
    /\ ending = "UnicodeDecodeError"
    /\ Len(yielded) = 1
    /\ Len(received) = 2
    /\ Len(received[2]) = 16

\* C8: a call of search whose POST the network failed, or whose response
\* body is not a JSON text, has raised, has returned nothing, and has sent
\* one POST.
C8_SearchFailurePropagates ==
    (searches > 0 /\ (sNet # "ok" \/ sSent = <<>>))
    => /\ sState = "raised"
       /\ sError # "none"
       /\ sResult = <<>>
       /\ Len(sPosted) = searches

C8_Witness ==
    /\ sState = "raised"
    /\ sError = "JSONDecodeError"
    /\ Len(sBody) > 10
    /\ searches = 2
    /\ Len(sPosted) = 2

=============================================================================
